---- MODULE Spec2Model ----
(***************************************************************************)
(* FileBlobStore of bluestack (internal/services/blob): the in-memory      *)
(* container index and the directory tree under baseDir, with the seven    *)
(* store operations.  Strings are sequences of characters, a filesystem    *)
(* path is the sequence of its segments below baseDir, and the os calls    *)
(* the store makes are modelled by what they do to the directory tree.     *)
(***************************************************************************)
EXTENDS Integers, Sequences, FiniteSets, TLC

VARIABLES
  containers,  \* FileBlobStore.containers: the set of keys mapped to true
  disk,        \* the tree under baseDir: [dirs: set of paths, files: path -> content,
               \*   ro: the directories whose mode allows no change of their entries,
               \*   full: no space is left on the device]
  last,        \* the most recent call of the sequential caller, with its result
  steps,       \* number of mutating calls made so far
  pc,          \* per goroutine: where it is in its call
  call,        \* per goroutine: the call it is making, with its result
  writer,      \* FileBlobStore.mu: the goroutine holding the write lock, or 0
  readers      \* FileBlobStore.mu: the goroutines holding the read lock

vars == <<containers, disk, last, steps, pc, call, writer, readers>>

-----------------------------------------------------------------------------
(* Bounds *)

MaxSteps == 4      \* mutating calls per run of the sequential caller
NThreads == 3      \* goroutines calling the store concurrently, one call each
NWorkers == 2      \* goroutines whose calls are followed system call by system call

-----------------------------------------------------------------------------
(* Strings and paths *)

SLASH == "/"

\* The empty string.
Empty == <<>>

\* A prefix test that matches whole path segments only.
HasPrefixBySegment(s, p) ==
  /\ Len(p) <= Len(s)
  /\ SubSeq(s, 1, Len(p)) = p
  /\ (Len(p) = Len(s) \/ s[Len(p) + 1] = "/" \/ (p # <<>> /\ p[Len(p)] = "/"))

\* strings.HasPrefix, which filepath.HasPrefix is on this platform.
HasPrefix(s, p) == Len(p) <= Len(s) /\ SubSeq(s, 1, Len(p)) = p

\* The segments of a slash separated string; empty segments vanish, as they
\* do in filepath.Join and filepath.Clean.
RECURSIVE SplitFrom(_, _, _)
SplitFrom(s, i, cur) ==
  IF i > Len(s)
  THEN IF cur = <<>> THEN <<>> ELSE <<cur>>
  ELSE IF s[i] = SLASH
       THEN (IF cur = <<>> THEN <<>> ELSE <<cur>>) \o SplitFrom(s, i + 1, <<>>)
       ELSE SplitFrom(s, i + 1, Append(cur, s[i]))

Split(s) == SplitFrom(s, 1, <<>>)

\* filepath.ToSlash(relPath): the segments joined by "/"; "." for no segment.
RECURSIVE JoinSlash(_)
JoinSlash(p) ==
  IF p = <<>> THEN <<".">>
  ELSE IF Len(p) = 1 THEN p[1]
  ELSE p[1] \o <<SLASH>> \o JoinSlash(Tail(p))

\* filepath.Dir of a path below baseDir (baseDir's own parent is outside the tree).
Dir(p) == IF p = <<>> THEN <<>> ELSE SubSeq(p, 1, Len(p) - 1)

IsPrefixPath(p, q) == Len(p) <= Len(q) /\ SubSeq(q, 1, Len(p)) = p
IsProperPrefixPath(p, q) == Len(p) < Len(q) /\ SubSeq(q, 1, Len(p)) = p

Prefixes(p) == { SubSeq(p, 1, n) : n \in 0..Len(p) }
ProperPrefixes(p) == { SubSeq(p, 1, n) : n \in 0..(Len(p) - 1) }

DOT == <<".">>
DOTDOT == <<".", ".">>

\* filepath.Clean, which filepath.Join applies to what it has joined: a "."
\* segment vanishes and a ".." segment takes the segment before it away; a
\* ".." with nothing before it stays, the path then leaves baseDir.
RECURSIVE CleanFrom(_, _)
CleanFrom(segs, out) ==
  IF segs = <<>> THEN out
  ELSE IF Head(segs) = DOT THEN CleanFrom(Tail(segs), out)
  ELSE IF Head(segs) = DOTDOT /\ out # <<>> /\ out[Len(out)] # DOTDOT
       THEN CleanFrom(Tail(segs), SubSeq(out, 1, Len(out) - 1))
  ELSE CleanFrom(Tail(segs), Append(out, Head(segs)))

\* filepath.Clean of a path given by its segments, taken as one value.
Clean(segs) == CHOOSE out \in { CleanFrom(s, <<>>) : s \in {segs} } : TRUE

\* containerPath: filepath.Join(s.baseDir, account, containerName).
containerPath(account, containerName) ==
  Clean(Split(account) \o Split(containerName))

\* blobPath: filepath.Join(s.containerPath(account, containerName), blobName).
blobPath(account, containerName, blobName) ==
  Clean(containerPath(account, containerName) \o Split(blobName))

\* containerKey: fmt.Sprintf("%s/%s", account, containerName).
containerKey(account, containerName) == account \o <<SLASH>> \o containerName

-----------------------------------------------------------------------------
(* The directory tree and the os calls made on it *)

IsDir(d, p) == p \in d.dirs
IsFile(d, p) == p \in DOMAIN d.files
Exists(d, p) == IsDir(d, p) \/ IsFile(d, p)

\* A proper ancestor of p is a regular file: every call on p gives ENOTDIR.
UnderFile(d, p) == \E a \in ProperPrefixes(p) : IsFile(d, a)

Below(d, p) == { q \in d.dirs \cup DOMAIN d.files : IsProperPrefixPath(p, q) }

Restrict(f, S) == [x \in S |-> f[x]]

\* Entries can be made in and removed from directory p.
Writable(d, p) == p \notin d.ro

\* os.MkdirAll(p, 0755): nil when p is a directory, ENOTDIR when p or an
\* ancestor is a file, else every missing directory down to p is made,
\* starting in the deepest one that exists; EACCES when that one is not
\* writable, ENOSPC when no space is left.
MkdirAll(d, p) ==
  IF IsDir(d, p) THEN [disk |-> d, err |-> "nil"]
  ELSE IF IsFile(d, p) \/ UnderFile(d, p) THEN [disk |-> d, err |-> "ENOTDIR"]
  ELSE LET found == { a \in Prefixes(p) : IsDir(d, a) }
           deepest == CHOOSE a \in found : \A b \in found : Len(b) <= Len(a)
       IN IF ~Writable(d, deepest) THEN [disk |-> d, err |-> "EACCES"]
          ELSE IF d.full THEN [disk |-> d, err |-> "ENOSPC"]
          ELSE [disk |-> [d EXCEPT !.dirs = @ \cup Prefixes(p)], err |-> "nil"]

\* The entry q can be taken out of the tree: its parent is writable and, for
\* a directory, every entry in it can be taken out first.
RECURSIVE Removable(_, _)
Removable(d, q) ==
  /\ Writable(d, Dir(q))
  /\ \A r \in Below(d, q) : Len(r) = Len(q) + 1 => Removable(d, r)

\* os.RemoveAll(p): removes p and everything below it; nil when p is absent.
\* What cannot be removed stays, the rest goes, and the error is reported.
RemoveAll(d, p) ==
  IF UnderFile(d, p) THEN [disk |-> d, err |-> "ENOTDIR"]
  ELSE LET gone == { q \in d.dirs \cup DOMAIN d.files :
                       IsPrefixPath(p, q) /\ Removable(d, q) }
       IN [disk |-> [dirs  |-> d.dirs \ gone,
                     files |-> Restrict(d.files, DOMAIN d.files \ gone),
                     ro    |-> d.ro \ gone,
                     full  |-> d.full],
           err |-> IF Exists(d, p) /\ ~Removable(d, p) THEN "EACCES" ELSE "nil"]

\* WriteFile that opens with O_APPEND in place of O_TRUNC.
WriteFileAppend(d, p, content) ==
  IF UnderFile(d, p) THEN [disk |-> d, err |-> "ENOTDIR"]
  ELSE IF IsDir(d, p) THEN [disk |-> d, err |-> "EISDIR"]
  ELSE IF ~IsDir(d, Dir(p)) THEN [disk |-> d, err |-> "ENOENT"]
  ELSE IF ~IsFile(d, p) /\ ~Writable(d, Dir(p)) THEN [disk |-> d, err |-> "EACCES"]
  ELSE [disk |-> [d EXCEPT !.files =
                    (p :> (IF IsFile(d, p) THEN d.files[p] ELSE <<>>) \o content) @@ @],
        err |-> "nil"]

\* WriteFile that creates or truncates the file and writes nothing.
WriteFileNoData(d, p, content) ==
  IF UnderFile(d, p) THEN [disk |-> d, err |-> "ENOTDIR"]
  ELSE IF IsDir(d, p) THEN [disk |-> d, err |-> "EISDIR"]
  ELSE IF ~IsDir(d, Dir(p)) THEN [disk |-> d, err |-> "ENOENT"]
  ELSE IF ~IsFile(d, p) /\ ~Writable(d, Dir(p)) THEN [disk |-> d, err |-> "EACCES"]
  ELSE [disk |-> [d EXCEPT !.files = (p :> <<>>) @@ @], err |-> "nil"]

\* os.WriteFile(p, content, 0644): create or truncate, then write.  A new
\* file needs a writable directory; when no space is left the write fails
\* and the file stays as the open left it, empty.
WriteFile(d, p, content) ==
  IF UnderFile(d, p) THEN [disk |-> d, err |-> "ENOTDIR"]
  ELSE IF IsDir(d, p) THEN [disk |-> d, err |-> "EISDIR"]
  ELSE IF ~IsDir(d, Dir(p)) THEN [disk |-> d, err |-> "ENOENT"]
  ELSE IF ~IsFile(d, p) /\ ~Writable(d, Dir(p)) THEN [disk |-> d, err |-> "EACCES"]
  ELSE IF d.full /\ content # <<>>
       THEN [disk |-> [d EXCEPT !.files = (p :> <<>>) @@ @], err |-> "ENOSPC"]
  ELSE [disk |-> [d EXCEPT !.files = (p :> content) @@ @], err |-> "nil"]

\* The first system call of os.WriteFile: open(p, O_WRONLY|O_CREATE|O_TRUNC)
\* leaves an empty file.
OpenTrunc(d, p) ==
  IF UnderFile(d, p) THEN [disk |-> d, err |-> "ENOTDIR"]
  ELSE IF IsDir(d, p) THEN [disk |-> d, err |-> "EISDIR"]
  ELSE IF ~IsDir(d, Dir(p)) THEN [disk |-> d, err |-> "ENOENT"]
  ELSE IF ~IsFile(d, p) /\ ~Writable(d, Dir(p)) THEN [disk |-> d, err |-> "EACCES"]
  ELSE [disk |-> [d EXCEPT !.files = (p :> <<>>) @@ @], err |-> "nil"]

\* The second: write(fd, content) to the file that was opened.  A file that
\* was unlinked meanwhile takes the bytes with it.
WriteAll(d, p, content) ==
  IF IsFile(d, p) /\ d.full /\ content # <<>> THEN [disk |-> d, err |-> "ENOSPC"]
  ELSE IF IsFile(d, p)
  THEN [disk |-> [d EXCEPT !.files = (p :> content) @@ @], err |-> "nil"]
  ELSE [disk |-> d, err |-> "nil"]

\* os.ReadFile(p).
ReadFile(d, p) ==
  IF UnderFile(d, p) THEN [content |-> <<>>, err |-> "ENOTDIR"]
  ELSE IF IsDir(d, p) THEN [content |-> <<>>, err |-> "EISDIR"]
  ELSE IF ~IsFile(d, p) THEN [content |-> <<>>, err |-> "ENOENT"]
  ELSE [content |-> d.files[p], err |-> "nil"]

\* os.Stat(p): the size of a regular file (0 is reported here for a directory).
Stat(d, p) ==
  IF UnderFile(d, p) THEN [size |-> 0, isDir |-> FALSE, err |-> "ENOTDIR"]
  ELSE IF IsDir(d, p) THEN [size |-> 0, isDir |-> TRUE, err |-> "nil"]
  ELSE IF ~IsFile(d, p) THEN [size |-> 0, isDir |-> FALSE, err |-> "ENOENT"]
  ELSE [size |-> Len(d.files[p]), isDir |-> FALSE, err |-> "nil"]

\* os.RemoveAll in the place of os.Remove: ENOENT for a missing path, else
\* the path goes with everything below it.
RemoveTree(d, p) ==
  IF ~UnderFile(d, p) /\ ~Exists(d, p) THEN [disk |-> d, err |-> "ENOENT"]
  ELSE RemoveAll(d, p)

\* os.Remove(p): unlink, and rmdir when that fails; an empty directory goes,
\* a directory with entries gives ENOTEMPTY, an entry of a directory that is
\* not writable EACCES.
Remove(d, p) ==
  IF UnderFile(d, p) THEN [disk |-> d, err |-> "ENOTDIR"]
  ELSE IF Exists(d, p) /\ ~Writable(d, Dir(p)) THEN [disk |-> d, err |-> "EACCES"]
  ELSE IF IsFile(d, p)
       THEN [disk |-> [d EXCEPT !.files = Restrict(@, DOMAIN @ \ {p})], err |-> "nil"]
  ELSE IF IsDir(d, p)
       THEN IF Below(d, p) = {}
            THEN [disk |-> [d EXCEPT !.dirs = @ \ {p}], err |-> "nil"]
            ELSE [disk |-> d, err |-> "ENOTEMPTY"]
  ELSE [disk |-> d, err |-> "ENOENT"]

\* os.IsNotExist(err).
IsNotExist(err) == err = "ENOENT"

-----------------------------------------------------------------------------
(* filepath.Walk: lexical order of the entry names of each directory *)

CharRank(c) ==
  CASE c = "." -> 46 [] c = "/" -> 47
    [] c = "a" -> 97 [] c = "b" -> 98 [] c = "c" -> 99 [] c = "d" -> 100
    [] c = "p" -> 112 [] c = "q" -> 113 [] c = "r" -> 114
    [] OTHER -> 255

\* s <= t as Go compares strings.
RECURSIVE StrLeq(_, _)
StrLeq(s, t) ==
  IF s = <<>> THEN TRUE
  ELSE IF t = <<>> THEN FALSE
  ELSE IF CharRank(Head(s)) < CharRank(Head(t)) THEN TRUE
  ELSE IF CharRank(Head(s)) > CharRank(Head(t)) THEN FALSE
  ELSE StrLeq(Tail(s), Tail(t))

Children(d, p) ==
  { q \in d.dirs \cup DOMAIN d.files : Len(q) = Len(p) + 1 /\ IsPrefixPath(p, q) }

\* readDirNames: the entries of a directory sorted by name.
RECURSIVE SortByName(_)
SortByName(S) ==
  IF S = {} THEN <<>>
  ELSE LET m == CHOOSE x \in S : \A y \in S : StrLeq(x[Len(x)], y[Len(y)])
       IN  <<m>> \o SortByName(S \ {m})

\* A walk that does not descend into the directories below its root.
WalkFilesFlat(d, p) ==
  IF p \in DOMAIN d.files THEN <<p>>
  ELSE SortByName({ q \in DOMAIN d.files :
                      Len(q) = Len(p) + 1 /\ SubSeq(q, 1, Len(p)) = p })

\* The regular files filepath.Walk visits from p, in the order it visits them.
RECURSIVE WalkFiles(_, _)
RECURSIVE WalkEach(_, _)
WalkFiles(d, p) ==
  IF IsFile(d, p) THEN <<p>>
  ELSE IF IsDir(d, p) THEN WalkEach(d, SortByName(Children(d, p)))
  ELSE <<>>
WalkEach(d, ps) ==
  IF ps = <<>> THEN <<>> ELSE WalkFiles(d, Head(ps)) \o WalkEach(d, Tail(ps))

\* filepath.Rel(containerPath, path) for a path at or below containerPath.
Rel(base, p) == SubSeq(p, Len(base) + 1, Len(p))

-----------------------------------------------------------------------------
(* The store operations, as functions of the index and the tree *)

\* The error kinds a caller tells apart: nil, "container/blob ... already
\* exists", "... does not exist", and a wrapped os error ("failed to ...").
OK == "nil"
AlreadyExists == "AlreadyExists"
NotFound == "NotFound"
IOError == "IOError"

DefaultContentType == "application/octet-stream"
NoMetadata == <<>>

\* CreateContainer without the test of the index.
CreateContainerNoCheck(idx, d, account, containerName) ==
  LET key == containerKey(account, containerName)
      mk  == MkdirAll(d, containerPath(account, containerName))
  IN  IF mk.err # "nil"
      THEN [containers |-> idx, disk |-> mk.disk, err |-> IOError]
      ELSE [containers |-> idx \cup {key}, disk |-> mk.disk, err |-> OK]

\* CreateContainer with os.Mkdir for the last element: an existing directory
\* is an error.
CreateContainerMkdir(idx, d, account, containerName) ==
  LET key == containerKey(account, containerName)
      mk  == MkdirAll(d, containerPath(account, containerName))
  IN  IF key \in idx
      THEN [containers |-> idx, disk |-> d, err |-> AlreadyExists]
      ELSE IF mk.err # "nil" \/ IsDir(d, containerPath(account, containerName))
      THEN [containers |-> idx, disk |-> d, err |-> IOError]
      ELSE [containers |-> idx \cup {key}, disk |-> mk.disk, err |-> OK]

CreateContainer(idx, d, account, containerName) ==
  LET key == containerKey(account, containerName)
      mk  == MkdirAll(d, containerPath(account, containerName))
  IN  IF key \in idx
      THEN [containers |-> idx, disk |-> d, err |-> AlreadyExists]
      ELSE IF mk.err # "nil"
      THEN [containers |-> idx, disk |-> mk.disk, err |-> IOError]
      ELSE [containers |-> idx \cup {key}, disk |-> mk.disk, err |-> OK]

\* DeleteContainer that forgets the index entry and leaves the directory.
DeleteContainerIndexOnly(idx, d, account, containerName) ==
  LET key == containerKey(account, containerName)
  IN  IF key \notin idx
      THEN [containers |-> idx, disk |-> d, err |-> NotFound]
      ELSE [containers |-> idx \ {key}, disk |-> d, err |-> OK]

\* DeleteContainer without the test of the index.
DeleteContainerNoCheck(idx, d, account, containerName) ==
  LET key == containerKey(account, containerName)
      rm  == RemoveAll(d, containerPath(account, containerName))
  IN  IF rm.err # "nil"
      THEN [containers |-> idx, disk |-> rm.disk, err |-> IOError]
      ELSE [containers |-> idx \ {key}, disk |-> rm.disk, err |-> OK]

\* DeleteContainer that forgets the index entry before it removes the
\* directory.
DeleteContainerUnmarkFirst(idx, d, account, containerName) ==
  LET key == containerKey(account, containerName)
      rm  == RemoveAll(d, containerPath(account, containerName))
  IN  IF key \notin idx
      THEN [containers |-> idx, disk |-> d, err |-> NotFound]
      ELSE IF rm.err # "nil"
      THEN [containers |-> idx \ {key}, disk |-> rm.disk, err |-> IOError]
      ELSE [containers |-> idx \ {key}, disk |-> rm.disk, err |-> OK]

DeleteContainer(idx, d, account, containerName) ==
  LET key == containerKey(account, containerName)
      rm  == RemoveAll(d, containerPath(account, containerName))
  IN  IF key \notin idx
      THEN [containers |-> idx, disk |-> d, err |-> NotFound]
      ELSE IF rm.err # "nil"
      THEN [containers |-> idx, disk |-> rm.disk, err |-> IOError]
      ELSE [containers |-> idx \ {key}, disk |-> rm.disk, err |-> OK]

\* ContainerExists answered from the directory tree, not from the index.
ContainerExistsOnDisk(idx, account, containerName) ==
  [exists |-> IsDir(disk, containerPath(account, containerName)), err |-> OK]

ContainerExists(idx, account, containerName) ==
  [exists |-> containerKey(account, containerName) \in idx, err |-> OK]

\* PutBlob that keeps the content type, in front of the bytes of the file.
PutBlobTyped(idx, d, account, containerName, blobName, content, contentType, metadata) ==
  LET key  == containerKey(account, containerName)
      mk   == MkdirAll(d, containerPath(account, containerName))
      idx1 == IF key \in idx THEN idx ELSE idx \cup {key}
      d1   == IF key \in idx THEN d ELSE mk.disk
      bp   == blobPath(account, containerName, blobName)
      mkb  == MkdirAll(d1, Dir(bp))
      wr   == WriteFile(mkb.disk, bp, <<contentType>> \o content)
  IN  IF key \notin idx /\ mk.err # "nil"
      THEN [containers |-> idx, disk |-> mk.disk, err |-> IOError]
      ELSE IF mkb.err # "nil"
      THEN [containers |-> idx1, disk |-> mkb.disk, err |-> IOError]
      ELSE IF wr.err # "nil"
      THEN [containers |-> idx1, disk |-> wr.disk, err |-> IOError]
      ELSE [containers |-> idx1, disk |-> wr.disk, err |-> OK]

PutBlob(idx, d, account, containerName, blobName, content, contentType, metadata) ==
  LET key  == containerKey(account, containerName)
      mk   == MkdirAll(d, containerPath(account, containerName))
      idx1 == IF key \in idx THEN idx ELSE idx \cup {key}
      d1   == IF key \in idx THEN d ELSE mk.disk
      bp   == blobPath(account, containerName, blobName)
      mkb  == MkdirAll(d1, Dir(bp))
      wr   == WriteFile(mkb.disk, bp, content)
  IN  IF key \notin idx /\ mk.err # "nil"
      THEN [containers |-> idx, disk |-> mk.disk, err |-> IOError]
      ELSE IF mkb.err # "nil"
      THEN [containers |-> idx1, disk |-> mkb.disk, err |-> IOError]
      ELSE IF wr.err # "nil"
      THEN [containers |-> idx1, disk |-> wr.disk, err |-> IOError]
      ELSE [containers |-> idx1, disk |-> wr.disk, err |-> OK]

GetBlob(d, account, containerName, blobName) ==
  LET bp == blobPath(account, containerName, blobName)
      rd == ReadFile(d, bp)
      st == Stat(d, bp)
      none == [err |-> OK, Name |-> <<>>, Content |-> <<>>, Size |-> 0,
               ContentType |-> "", Metadata |-> NoMetadata]
  IN  IF rd.err # "nil"
      THEN IF IsNotExist(rd.err) THEN [none EXCEPT !.err = NotFound]
                                 ELSE [none EXCEPT !.err = IOError]
      ELSE IF st.err # "nil" THEN [none EXCEPT !.err = IOError]
      ELSE [err |-> OK, Name |-> blobName, Content |-> rd.content, Size |-> st.size,
            ContentType |-> DefaultContentType, Metadata |-> NoMetadata]

DeleteBlob(idx, d, account, containerName, blobName) ==
  LET rm == Remove(d, blobPath(account, containerName, blobName))
  IN  IF rm.err # "nil"
      THEN IF IsNotExist(rm.err)
           THEN [containers |-> idx, disk |-> rm.disk, err |-> NotFound]
           ELSE [containers |-> idx, disk |-> rm.disk, err |-> IOError]
      ELSE [containers |-> idx, disk |-> rm.disk, err |-> OK]

\* The callback with the cap tested by > in place of >=.
RECURSIVE CollectOneMore(_, _, _, _, _, _)
CollectOneMore(d, cp, files, prefix, maxResults, results) ==
  IF files = <<>> THEN results
  ELSE LET path     == Head(files)
           blobName == JoinSlash(Rel(cp, path))
       IN  IF prefix # <<>> /\ ~HasPrefix(blobName, prefix)
           THEN CollectOneMore(d, cp, Tail(files), prefix, maxResults, results)
           ELSE IF maxResults > 0 /\ Len(results) > maxResults
           THEN results
           ELSE CollectOneMore(d, cp, Tail(files), prefix, maxResults,
                               Append(results, [Name |-> blobName,
                                                ContentType |-> DefaultContentType,
                                                Size |-> Len(d.files[path]),
                                                Metadata |-> NoMetadata]))

\* The callback of ListBlobs applied to the files in walk order.
RECURSIVE Collect(_, _, _, _, _, _)
Collect(d, cp, files, prefix, maxResults, results) ==
  IF files = <<>> THEN results
  ELSE LET path     == Head(files)
           blobName == JoinSlash(Rel(cp, path))
       IN  IF prefix # <<>> /\ ~HasPrefix(blobName, prefix)
           THEN Collect(d, cp, Tail(files), prefix, maxResults, results)
           ELSE IF maxResults > 0 /\ Len(results) >= maxResults
           THEN results
           ELSE Collect(d, cp, Tail(files), prefix, maxResults,
                        Append(results, [Name |-> blobName,
                                         ContentType |-> DefaultContentType,
                                         Size |-> Len(d.files[path]),
                                         Metadata |-> NoMetadata]))

\* ListBlobs without the os.Stat test: the walk of a missing root reports the
\* lstat error to the callback, which returns it.
ListBlobsNoStat(d, account, containerName, prefix, maxResults) ==
  LET cp == containerPath(account, containerName)
  IN  IF ~Exists(d, cp) THEN [results |-> <<>>, err |-> IOError]
      ELSE [results |-> CHOOSE r \in { Collect(d, cp, files, prefix, maxResults, <<>>) :
                                        files \in {WalkFiles(d, cp)} } : TRUE,
            err |-> OK]

ListBlobs(d, account, containerName, prefix, maxResults) ==
  LET cp == containerPath(account, containerName)
      st == Stat(d, cp)
  IN  IF IsNotExist(st.err) THEN [results |-> <<>>, err |-> NotFound]
      ELSE IF st.err # "nil" THEN [results |-> <<>>, err |-> IOError]
      ELSE [results |-> CHOOSE r \in { Collect(d, cp, files, prefix, maxResults, <<>>) :
                                        files \in {WalkFiles(d, cp)} } : TRUE,
            err |-> OK]

-----------------------------------------------------------------------------
(* The inputs the callers draw from *)

AcctA == <<"a">>
AcctB == <<"b">>
ContC == <<"c">>

\* (account, container) pairs: a container, and the container of the same
\* name in another account.
Keys == { <<AcctA, ContC>>, <<AcctB, ContC>> }

NameP   == <<"p">>
NamePQ  == <<"p", "/", "q">>
NamePR  == <<"p", "/", "r">>
NamePQR == <<"p", "/", "q", "/", "r">>
NamePq  == <<"p", "q">>

BlobNames == { NameP, NamePQ, NamePR, NamePQR, NamePq }

Contents == { <<1>>, <<2, 3>> }

ContentTypes == { "text/plain" }
Metadatas == { <<>> }

\* What the concurrent callers draw from: one container, two blob names, one
\* content that differs from what an earlier run left.
KeysC == { <<AcctA, ContC>> }
BlobNamesC == { NameP, NamePQ }
ContentsC == { <<2, 3>> }

ListPrefixes == { Empty, NameP, <<"p", "/">>, NamePq }
ListMax == { 0, 1, 2 }

EmptyFiles == [x \in {} |-> <<>>]

\* The tree NewFileBlobStore leaves on a fresh data directory: baseDir alone.
EmptyDisk == [dirs |-> {<<>>}, files |-> EmptyFiles, ro |-> {}, full |-> FALSE]

\* Trees a data directory can hold when the store is constructed: a fresh
\* one, and what an earlier run of the store left behind.
PriorDisks ==
  { EmptyDisk,
    PutBlob({}, EmptyDisk, AcctA, ContC, NameP, <<1>>, "text/plain", <<>>).disk }

-----------------------------------------------------------------------------
(* The sequential caller *)

\* A call with its result.  indexed, was, old and files are history: what the
\* index and the tree held when the call was made.
NoCall ==
  [op |-> "none", account |-> Empty, container |-> Empty, blob |-> Empty,
   content |-> <<>>, prefix |-> Empty, max |-> 0,
   err |-> OK, exists |-> FALSE, out |-> <<>>, size |-> 0, results |-> <<>>,
   indexed |-> FALSE, was |-> "absent", old |-> <<>>, files |-> 0,
   engine |-> FALSE, status |-> 0, ctype |-> "", meta |-> NoMetadata]

Kind(d, p) == IF IsFile(d, p) THEN "file" ELSE IF IsDir(d, p) THEN "dir" ELSE "absent"

\* The regular files below path p.
FilesBelow(d, p) == { q \in DOMAIN d.files : IsProperPrefixPath(p, q) }

\* The call op(account, containerName, blobName, ...) made in the current state.
Called(op, account, containerName, blobName) ==
  LET bp == blobPath(account, containerName, blobName) IN
  [NoCall EXCEPT
     !.op = op, !.account = account, !.container = containerName,
     !.blob = blobName,
     !.engine = TRUE,
     !.indexed = containerKey(account, containerName) \in containers,
     !.was = Kind(disk, bp),
     !.old = IF IsFile(disk, bp) THEN disk.files[bp] ELSE <<>>,
     !.files = Cardinality(FilesBelow(disk, containerPath(account, containerName)))]

\* s.blobPath of the arguments of call c.
BlobPathOfCall(c) == blobPath(c.account, c.container, c.blob)

NoThread == 0
Threads == 1..NThreads

\* A constructor that records every account/container directory it finds.
NewFileBlobStoreScan(d) ==
  [containers |-> { containerKey(p[1], p[2]) : p \in { q \in d.dirs : Len(q) = 2 } },
   disk |-> d]

\* NewFileBlobStore: an empty index over whatever the directory holds.
NewFileBlobStore(d) == [containers |-> {}, disk |-> d]

Init ==
  /\ \E d \in PriorDisks :
       /\ containers = NewFileBlobStore(d).containers
       /\ disk = NewFileBlobStore(d).disk
  /\ last = NoCall
  /\ steps = 0
  /\ pc = [t \in Threads |-> "done"]
  /\ call = [t \in Threads |-> NoCall]
  /\ writer = NoThread
  /\ readers = {}

ThreadVars == <<pc, call, writer, readers>>

\* One call of each method by the sequential caller, with the given arguments.
CreateContainerCall(k) ==
  LET r == CreateContainer(containers, disk, k[1], k[2]) IN
  /\ last = NoCall
  /\ steps < MaxSteps
  /\ containers' = r.containers
  /\ disk' = r.disk
  /\ last' = [Called("CreateContainer", k[1], k[2], Empty) EXCEPT !.err = r.err]
  /\ steps' = steps + 1
  /\ UNCHANGED ThreadVars

DeleteContainerCall(k) ==
  LET r == DeleteContainer(containers, disk, k[1], k[2]) IN
  /\ last = NoCall
  /\ steps < MaxSteps
  /\ containers' = r.containers
  /\ disk' = r.disk
  /\ last' = [Called("DeleteContainer", k[1], k[2], Empty) EXCEPT !.err = r.err]
  /\ steps' = steps + 1
  /\ UNCHANGED ThreadVars

ContainerExistsCall(k) ==
  LET r == ContainerExists(containers, k[1], k[2]) IN
  /\ last = NoCall
  /\ last' = [Called("ContainerExists", k[1], k[2], Empty) EXCEPT
                !.err = r.err, !.exists = r.exists]
  /\ UNCHANGED <<containers, disk, steps>>
  /\ UNCHANGED ThreadVars

PutBlobCall(k, n, c, ct, md) ==
  LET r == PutBlob(containers, disk, k[1], k[2], n, c, ct, md) IN
  /\ last = NoCall
  /\ steps < MaxSteps
  /\ containers' = r.containers
  /\ disk' = r.disk
  /\ last' = [Called("PutBlob", k[1], k[2], n) EXCEPT
                !.content = c, !.ctype = ct, !.meta = md, !.err = r.err]
  /\ steps' = steps + 1
  /\ UNCHANGED ThreadVars

GetBlobCall(k, n) ==
  LET r == GetBlob(disk, k[1], k[2], n) IN
  /\ last = NoCall
  /\ last' = [Called("GetBlob", k[1], k[2], n) EXCEPT
                !.err = r.err, !.out = r.Content, !.size = r.Size]
  /\ UNCHANGED <<containers, disk, steps>>
  /\ UNCHANGED ThreadVars

DeleteBlobCall(k, n) ==
  LET r == DeleteBlob(containers, disk, k[1], k[2], n) IN
  /\ last = NoCall
  /\ steps < MaxSteps
  /\ containers' = r.containers
  /\ disk' = r.disk
  /\ last' = [Called("DeleteBlob", k[1], k[2], n) EXCEPT !.err = r.err]
  /\ steps' = steps + 1
  /\ UNCHANGED ThreadVars

ListBlobsCall(k, pre, m) ==
  LET r == ListBlobs(disk, k[1], k[2], pre, m) IN
  /\ last = NoCall
  /\ last' = [Called("ListBlobs", k[1], k[2], Empty) EXCEPT
                !.prefix = pre, !.max = m, !.err = r.err,
                !.results = r.results]
  /\ UNCHANGED <<containers, disk, steps>>
  /\ UNCHANGED ThreadVars

DoCreateContainer == \E k \in Keys : CreateContainerCall(k)

DoDeleteContainer == \E k \in Keys : DeleteContainerCall(k)

DoContainerExists == \E k \in Keys : ContainerExistsCall(k)

DoPutBlob ==
  \E k \in Keys, n \in BlobNames, c \in Contents,
     ct \in ContentTypes, md \in Metadatas : PutBlobCall(k, n, c, ct, md)

DoGetBlob == \E k \in Keys, n \in BlobNames : GetBlobCall(k, n)

DoDeleteBlob == \E k \in Keys, n \in BlobNames : DeleteBlobCall(k, n)

DoListBlobs ==
  \E k \in Keys, pre \in ListPrefixes, m \in ListMax : ListBlobsCall(k, pre, m)

\* The call returns: the caller has its result and is free to call again.
Return ==
  /\ last # NoCall
  /\ last' = NoCall
  /\ UNCHANGED <<containers, disk, steps>>
  /\ UNCHANGED ThreadVars

Next ==
  \/ DoCreateContainer
  \/ DoDeleteContainer
  \/ DoContainerExists
  \/ DoPutBlob
  \/ DoGetBlob
  \/ DoDeleteBlob
  \/ DoListBlobs
  \/ Return

Spec == Init /\ [][Next]_vars

-----------------------------------------------------------------------------
(* A caller that passes empty names: the store methods take any string     *)

\* (account, container) pairs with an empty account or container name, next
\* to one with neither.
KeysE == { <<Empty, ContC>>, <<AcctA, Empty>>, <<AcctA, ContC>> }

\* Blob names: none, one that is also a container name, and a plain one.
BlobNamesE == { Empty, ContC, NameP }

DoCreateContainerE == \E k \in KeysE : CreateContainerCall(k)

DoDeleteContainerE == \E k \in KeysE : DeleteContainerCall(k)

DoContainerExistsE == \E k \in KeysE : ContainerExistsCall(k)

DoPutBlobE ==
  \E k \in KeysE, n \in BlobNamesE, c \in ContentsC :
    PutBlobCall(k, n, c, "text/plain", <<>>)

DoGetBlobE == \E k \in KeysE, n \in BlobNamesE : GetBlobCall(k, n)

DoDeleteBlobE == \E k \in KeysE, n \in BlobNamesE : DeleteBlobCall(k, n)

DoListBlobsE == \E k \in KeysE : ListBlobsCall(k, Empty, 0)

NextE ==
  \/ DoCreateContainerE
  \/ DoDeleteContainerE
  \/ DoContainerExistsE
  \/ DoPutBlobE
  \/ DoGetBlobE
  \/ DoDeleteBlobE
  \/ DoListBlobsE
  \/ Return

SpecE == Init /\ [][NextE]_vars

-----------------------------------------------------------------------------
(* A data directory in which the store may not write everywhere: the os    *)
(* calls of the store fail for a reason other than the names it is given   *)

\* What an earlier run left, with one directory made read-only since (the
\* account directory, baseDir itself, or the container directory), or on a
\* device that has filled up.
PermDisks ==
  LET left == PutBlob({}, EmptyDisk, AcctA, ContC, NameP, <<1>>, "text/plain", <<>>).disk
  IN { [left EXCEPT !.ro = {<<AcctA>>}],
       [left EXCEPT !.ro = {<<>>}],
       [left EXCEPT !.ro = {<<AcctA, ContC>>}],
       [left EXCEPT !.full = TRUE] }

\* Blob names: the one on disk, one below it, and a new one.
BlobNamesP == { NameP, NamePQ, NamePq }

InitP ==
  /\ \E d \in PermDisks :
       /\ containers = NewFileBlobStore(d).containers
       /\ disk = NewFileBlobStore(d).disk
  /\ last = NoCall
  /\ steps = 0
  /\ pc = [t \in Threads |-> "done"]
  /\ call = [t \in Threads |-> NoCall]
  /\ writer = NoThread
  /\ readers = {}

NextP ==
  \/ DoCreateContainer
  \/ DoDeleteContainer
  \/ DoContainerExists
  \/ \E k \in Keys, n \in BlobNamesP, c \in ContentsC :
       PutBlobCall(k, n, c, "text/plain", <<>>)
  \/ \E k \in Keys, n \in BlobNamesP : GetBlobCall(k, n)
  \/ \E k \in Keys, n \in BlobNamesP : DeleteBlobCall(k, n)
  \/ \E k \in Keys : ListBlobsCall(k, Empty, 0)
  \/ Return

SpecP == InitP /\ [][NextP]_vars

-----------------------------------------------------------------------------
(* Three containers, and a blob name that climbs out of its container *)

ContD == <<"d">>

\* A container, another one in the same account, and the one of the same
\* name in another account.
KeysI == { <<AcctA, ContC>>, <<AcctA, ContD>>, <<AcctB, ContC>> }

\* The blob name ../d/p.
NameUp == DOTDOT \o <<SLASH>> \o ContD \o <<SLASH>> \o NameP

BlobNamesI == { NameP, NameUp }

NextI ==
  \/ \E k \in KeysI : CreateContainerCall(k)
  \/ \E k \in KeysI : DeleteContainerCall(k)
  \/ \E k \in KeysI : ContainerExistsCall(k)
  \/ \E k \in KeysI, n \in BlobNamesI, c \in ContentsC :
       PutBlobCall(k, n, c, "text/plain", <<>>)
  \/ \E k \in KeysI, n \in BlobNamesI : GetBlobCall(k, n)
  \/ \E k \in KeysI, n \in BlobNamesI : DeleteBlobCall(k, n)
  \/ \E k \in KeysI : ListBlobsCall(k, Empty, 0)
  \/ Return

SpecI == Init /\ [][NextI]_vars

-----------------------------------------------------------------------------
(* The HTTP adapter (BlobService): each handler checks the names of the    *)
(* request, calls the store and turns the error it gets into a status code *)
(* by searching the text of the error.  A text is a sequence of tokens:    *)
(* the characters of the names in it, and the two phrases the handlers     *)
(* search for, each phrase one token.                                      *)

PhraseAlreadyExists == "already exists"
PhraseDoesNotExist == "does not exist"

\* strings.Contains(text, phrase).
Contains(text, phrase) == \E i \in DOMAIN text : text[i] = phrase

\* err.Error() of the error a store method returns: the fmt.Errorf text of
\* the return statement, with the name it formats in, and for a wrapped os
\* error the path the os call was given.
ErrorText(op, kind, account, containerName, blobName) ==
  CASE kind = AlreadyExists ->
         <<"container ">> \o containerName \o <<" ", PhraseAlreadyExists>>
    [] kind = NotFound /\ op \in {"DeleteContainer", "ListBlobs"} ->
         <<"container ">> \o containerName \o <<" ", PhraseDoesNotExist>>
    [] kind = NotFound /\ op \in {"GetBlob", "DeleteBlob"} ->
         <<"blob ">> \o blobName \o <<" ", PhraseDoesNotExist>>
    [] kind = IOError /\ op \in {"CreateContainer", "DeleteContainer", "ListBlobs"} ->
         <<"failed: ">> \o JoinSlash(containerPath(account, containerName))
           \o <<": os error">>
    [] kind = IOError /\ op \in {"PutBlob", "GetBlob", "DeleteBlob"} ->
         <<"failed: ">> \o JoinSlash(blobPath(account, containerName, blobName))
           \o <<": os error">>
    [] OTHER -> <<>>

\* The status a handler answers with: 400 before the store is called, the
\* success status of the handler when the store returned nil, and otherwise
\* 409 or 404 when the handler searches the error text for a phrase and
\* finds it, 500 in every other case.  handlePutBlob searches for nothing.
StatusOnSuccess(op) ==
  CASE op \in {"CreateContainer", "PutBlob"} -> 201
    [] op \in {"DeleteContainer", "DeleteBlob"} -> 204
    [] OTHER -> 200

StatusOnError(op, text) ==
  CASE op = "CreateContainer" ->
         IF Contains(text, PhraseAlreadyExists) THEN 409 ELSE 500
    [] op = "PutBlob" -> 500
    [] OTHER -> IF Contains(text, PhraseDoesNotExist) THEN 404 ELSE 500

writeStatus(op, err, account, containerName, blobName) ==
  IF err = OK THEN StatusOnSuccess(op)
  ELSE StatusOnError(op, ErrorText(op, err, account, containerName, blobName))

\* The request is answered 400 and the store is not called.
BadRequest(op, k, n) ==
  /\ last = NoCall
  /\ last' = [NoCall EXCEPT !.op = op, !.account = k[1], !.container = k[2],
                            !.blob = n, !.status = 400]
  /\ UNCHANGED <<containers, disk, steps>>
  /\ UNCHANGED ThreadVars

\* The store call of the handler has been made (last' holds it); the handler
\* answers with the status for its result.
Answer(op, k, n, body) ==
  /\ last = NoCall
  /\ \E c \in {[body EXCEPT !.status = writeStatus(op, body.err, k[1], k[2], n)]} :
       last' = c

handleCreateContainer(k) ==
  IF k[1] = Empty \/ k[2] = Empty THEN BadRequest("CreateContainer", k, Empty)
  ELSE LET r == CreateContainer(containers, disk, k[1], k[2]) IN
       /\ steps < MaxSteps
       /\ containers' = r.containers
       /\ disk' = r.disk
       /\ Answer("CreateContainer", k, Empty,
                 [Called("CreateContainer", k[1], k[2], Empty) EXCEPT !.err = r.err])
       /\ steps' = steps + 1
       /\ UNCHANGED ThreadVars

handleDeleteContainer(k) ==
  IF k[1] = Empty \/ k[2] = Empty THEN BadRequest("DeleteContainer", k, Empty)
  ELSE LET r == DeleteContainer(containers, disk, k[1], k[2]) IN
       /\ steps < MaxSteps
       /\ containers' = r.containers
       /\ disk' = r.disk
       /\ Answer("DeleteContainer", k, Empty,
                 [Called("DeleteContainer", k[1], k[2], Empty) EXCEPT !.err = r.err])
       /\ steps' = steps + 1
       /\ UNCHANGED ThreadVars

handlePutBlob(k, n, c, ct, md) ==
  IF k[1] = Empty \/ k[2] = Empty \/ n = Empty THEN BadRequest("PutBlob", k, n)
  ELSE LET contentType == IF ct = "" THEN DefaultContentType ELSE ct
           r == PutBlob(containers, disk, k[1], k[2], n, c, contentType, md) IN
       /\ steps < MaxSteps
       /\ containers' = r.containers
       /\ disk' = r.disk
       /\ Answer("PutBlob", k, n,
                 [Called("PutBlob", k[1], k[2], n) EXCEPT
                    !.content = c, !.ctype = contentType, !.meta = md,
                    !.err = r.err])
       /\ steps' = steps + 1
       /\ UNCHANGED ThreadVars

handleGetBlob(k, n) ==
  IF k[1] = Empty \/ k[2] = Empty \/ n = Empty THEN BadRequest("GetBlob", k, n)
  ELSE LET r == GetBlob(disk, k[1], k[2], n) IN
       /\ Answer("GetBlob", k, n,
                 [Called("GetBlob", k[1], k[2], n) EXCEPT
                    !.err = r.err, !.out = r.Content, !.size = r.Size])
       /\ UNCHANGED <<containers, disk, steps>>
       /\ UNCHANGED ThreadVars

handleDeleteBlob(k, n) ==
  IF k[1] = Empty \/ k[2] = Empty \/ n = Empty THEN BadRequest("DeleteBlob", k, n)
  ELSE LET r == DeleteBlob(containers, disk, k[1], k[2], n) IN
       /\ steps < MaxSteps
       /\ containers' = r.containers
       /\ disk' = r.disk
       /\ Answer("DeleteBlob", k, n,
                 [Called("DeleteBlob", k[1], k[2], n) EXCEPT !.err = r.err])
       /\ steps' = steps + 1
       /\ UNCHANGED ThreadVars

\* maxresults of the query: the number when it parses and is positive, else 0.
ParseMaxResults(m) == IF m > 0 THEN m ELSE 0

handleListBlobs(k, pre, m) ==
  IF k[1] = Empty \/ k[2] = Empty THEN BadRequest("ListBlobs", k, Empty)
  ELSE LET r == ListBlobs(disk, k[1], k[2], pre, ParseMaxResults(m)) IN
       /\ Answer("ListBlobs", k, Empty,
                 [Called("ListBlobs", k[1], k[2], Empty) EXCEPT
                    !.prefix = pre, !.max = ParseMaxResults(m), !.err = r.err,
                    !.results = r.results])
       /\ UNCHANGED <<containers, disk, steps>>
       /\ UNCHANGED ThreadVars

\* The requests: a container, and URLs whose account or container is empty.
KeysH == { <<AcctA, ContC>>, <<Empty, ContC>>, <<AcctA, Empty>> }

\* Blob names of the requests: none, a plain one, and one under it whose
\* last segment reads "does not exist".
NameGhost == <<"p", "/", PhraseDoesNotExist>>
BlobNamesH == { Empty, NameP, NameGhost }

\* maxresults values of the requests.
MaxResultsH == { -1, 0, 1 }

DoHandleCreateContainer == \E k \in KeysH : handleCreateContainer(k)

DoHandleDeleteContainer == \E k \in KeysH : handleDeleteContainer(k)

\* Content-Type headers (none, or one) and x-ms-meta-* headers (none, or the
\* pair k: v) of the put requests.
ContentTypesH == { "", "text/plain" }
MetadatasH == { NoMetadata, << <<"k", "v">> >> }

DoHandlePutBlob ==
  \E k \in KeysH, n \in BlobNamesH, c \in ContentsC,
     ct \in ContentTypesH, md \in MetadatasH : handlePutBlob(k, n, c, ct, md)

DoHandleGetBlob == \E k \in KeysH, n \in BlobNamesH : handleGetBlob(k, n)

DoHandleDeleteBlob == \E k \in KeysH, n \in BlobNamesH : handleDeleteBlob(k, n)

DoHandleListBlobs ==
  \E k \in KeysH, m \in MaxResultsH : handleListBlobs(k, Empty, m)

NextH ==
  \/ DoHandleCreateContainer
  \/ DoHandleDeleteContainer
  \/ DoHandlePutBlob
  \/ DoHandleGetBlob
  \/ DoHandleDeleteBlob
  \/ DoHandleListBlobs
  \/ Return

SpecH == Init /\ [][NextH]_vars

-----------------------------------------------------------------------------
(* Concurrent callers: one goroutine per request, each making one call     *)
(* under FileBlobStore.mu                                                  *)


Mutators == { "CreateContainer", "DeleteContainer", "PutBlob", "DeleteBlob" }
Readers == { "ContainerExists", "GetBlob", "ListBlobs" }

\* The calls a goroutine may make, with blob names drawn from names.
CallsOn(names) ==
  { [NoCall EXCEPT !.op = o, !.account = k[1], !.container = k[2]] :
      o \in { "CreateContainer", "DeleteContainer", "ContainerExists", "ListBlobs" },
      k \in KeysC }
  \cup
  { [NoCall EXCEPT !.op = o, !.account = k[1], !.container = k[2], !.blob = n] :
      o \in { "GetBlob", "DeleteBlob" }, k \in KeysC, n \in names }
  \cup
  { [NoCall EXCEPT !.op = "PutBlob", !.account = k[1], !.container = k[2],
                   !.blob = n, !.content = c] :
      k \in KeysC, n \in names, c \in ContentsC }

CallsC == CallsOn({NameP})

InitC ==
  /\ \E d \in PriorDisks :
       /\ containers = NewFileBlobStore(d).containers
       /\ disk = NewFileBlobStore(d).disk
  /\ last = NoCall
  /\ steps = 0
  /\ pc = [t \in Threads |-> "idle"]
  /\ call = [t \in Threads |-> NoCall]
  /\ writer = NoThread
  /\ readers = {}

\* A request arrives: the goroutine is about to enter the store method.
InvokeFrom(t, calls) ==
  /\ pc[t] = "idle"
  /\ \E c \in calls : call' = [call EXCEPT ![t] = c]
  /\ pc' = [pc EXCEPT ![t] = "wait"]
  /\ UNCHANGED <<containers, disk, last, steps, writer, readers>>

Invoke(t) == InvokeFrom(t, CallsC)

\* A lock that excludes nobody.
CanLockAlways == TRUE

\* s.mu.Lock() returns once no goroutine holds the lock in either mode.
CanLock == writer = NoThread /\ readers = {}

\* A read lock that does not wait for the writer.
CanRLockAlways == TRUE

\* s.mu.RLock() returns once no goroutine holds the write lock.
CanRLock == writer = NoThread

Lock(t) ==
  /\ pc[t] = "wait"
  /\ call[t].op \in Mutators
  /\ CanLock
  /\ writer' = t
  /\ pc' = [pc EXCEPT ![t] = "in"]
  /\ UNCHANGED <<containers, disk, last, steps, call, readers>>

RLock(t) ==
  /\ pc[t] = "wait"
  /\ call[t].op \in Readers
  /\ CanRLock
  /\ readers' = readers \cup {t}
  /\ pc' = [pc EXCEPT ![t] = "in"]
  /\ UNCHANGED <<containers, disk, last, steps, call, writer>>

\* CreateContainer, line by line: the index test,
CreateCheck(t) ==
  /\ pc[t] = "in"
  /\ call[t].op = "CreateContainer"
  /\ IF containerKey(call[t].account, call[t].container) \in containers
     THEN /\ call' = [call EXCEPT ![t].err = AlreadyExists]
          /\ pc' = [pc EXCEPT ![t] = "ret"]
     ELSE /\ call' = call
          /\ pc' = [pc EXCEPT ![t] = "mkdir"]
  /\ UNCHANGED <<containers, disk, last, steps, writer, readers>>

\* os.MkdirAll,
CreateMkdir(t) ==
  LET mk == MkdirAll(disk, containerPath(call[t].account, call[t].container)) IN
  /\ pc[t] = "mkdir"
  /\ disk' = mk.disk
  /\ IF mk.err # "nil"
     THEN /\ call' = [call EXCEPT ![t].err = IOError]
          /\ pc' = [pc EXCEPT ![t] = "ret"]
     ELSE /\ call' = call
          /\ pc' = [pc EXCEPT ![t] = "mark"]
  /\ UNCHANGED <<containers, last, steps, writer, readers>>

\* and s.containers[key] = true.
CreateMark(t) ==
  /\ pc[t] = "mark"
  /\ containers' = containers \cup {containerKey(call[t].account, call[t].container)}
  /\ call' = [call EXCEPT ![t].err = OK]
  /\ pc' = [pc EXCEPT ![t] = "ret"]
  /\ UNCHANGED <<disk, last, steps, writer, readers>>

\* The body of any other mutating method, run while holding the write lock.
MutateBody(t) ==
  LET c == call[t]
      r == CASE c.op = "DeleteContainer" ->
                  DeleteContainer(containers, disk, c.account, c.container)
             [] c.op = "PutBlob" ->
                  PutBlob(containers, disk, c.account, c.container, c.blob,
                          c.content, "text/plain", <<>>)
             [] OTHER ->
                  DeleteBlob(containers, disk, c.account, c.container, c.blob)
  IN
  /\ pc[t] = "in"
  /\ c.op \in Mutators \ {"CreateContainer"}
  /\ containers' = r.containers
  /\ disk' = r.disk
  /\ call' = [call EXCEPT ![t].err = r.err]
  /\ pc' = [pc EXCEPT ![t] = "ret"]
  /\ UNCHANGED <<last, steps, writer, readers>>

\* The body of a reading method, run while holding the read lock.
ReadBody(t) ==
  LET c == call[t]
      e == ContainerExists(containers, c.account, c.container)
      g == GetBlob(disk, c.account, c.container, c.blob)
      l == ListBlobs(disk, c.account, c.container, c.prefix, c.max)
  IN
  /\ pc[t] = "in"
  /\ c.op \in Readers
  /\ call' = [call EXCEPT ![t] =
       CASE c.op = "ContainerExists" -> [c EXCEPT !.err = e.err, !.exists = e.exists]
         [] c.op = "GetBlob" -> [c EXCEPT !.err = g.err, !.out = g.Content,
                                          !.size = g.Size]
         [] OTHER -> [c EXCEPT !.err = l.err, !.results = l.results]]
  /\ pc' = [pc EXCEPT ![t] = "ret"]
  /\ UNCHANGED <<containers, disk, last, steps, writer, readers>>

\* An unlock that is not deferred: it is skipped when the call fails.
UnlockOnSuccess(t) ==
  /\ pc[t] = "ret"
  /\ IF call[t].err # OK
     THEN writer' = writer /\ readers' = readers
     ELSE IF call[t].op \in Mutators
     THEN writer' = NoThread /\ readers' = readers
     ELSE readers' = readers \ {t} /\ writer' = writer
  /\ pc' = [pc EXCEPT ![t] = "done"]
  /\ UNCHANGED <<containers, disk, last, steps, call>>

\* defer s.mu.Unlock() / defer s.mu.RUnlock(): runs on every return path.
Unlock(t) ==
  /\ pc[t] = "ret"
  /\ IF call[t].op \in Mutators
     THEN writer' = NoThread /\ readers' = readers
     ELSE readers' = readers \ {t} /\ writer' = writer
  /\ pc' = [pc EXCEPT ![t] = "done"]
  /\ UNCHANGED <<containers, disk, last, steps, call>>

NextC ==
  \E t \in Threads :
    \/ Invoke(t)
    \/ Lock(t)
    \/ RLock(t)
    \/ CreateCheck(t)
    \/ CreateMkdir(t)
    \/ CreateMark(t)
    \/ MutateBody(t)
    \/ ReadBody(t)
    \/ Unlock(t)

SpecC == InitC /\ [][NextC]_vars

-----------------------------------------------------------------------------
(* Concurrent callers followed through every system call and index access  *)
(* of PutBlob, DeleteContainer and GetBlob                                 *)

Workers == 1..NWorkers

\* Their calls are about two blobs, one below a directory.
CallsF == CallsOn(BlobNamesC)

InvokeF(t) == InvokeFrom(t, CallsF)

InitF ==
  /\ \E d \in PriorDisks :
       /\ containers = NewFileBlobStore(d).containers
       /\ disk = NewFileBlobStore(d).disk
  /\ last = NoCall
  /\ steps = 0
  /\ pc = [t \in Threads |-> IF t \in Workers THEN "idle" ELSE "done"]
  /\ call = [t \in Threads |-> NoCall]
  /\ writer = NoThread
  /\ readers = {}

\* The call of goroutine t fails with error kind e.
Fail(t, e) ==
  /\ call' = [call EXCEPT ![t].err = e]
  /\ pc' = [pc EXCEPT ![t] = "ret"]

\* The call of goroutine t goes on at step p.
Goto(t, p) ==
  /\ call' = call
  /\ pc' = [pc EXCEPT ![t] = p]

\* PutBlob, line by line: if !s.containers[key],
PutCheck(t) ==
  /\ pc[t] = "in"
  /\ call[t].op = "PutBlob"
  /\ IF containerKey(call[t].account, call[t].container) \in containers
     THEN Goto(t, "blobdir")
     ELSE Goto(t, "ensure")
  /\ UNCHANGED <<containers, disk, last, steps, writer, readers>>

\* os.MkdirAll(path) of the container,
PutEnsure(t) ==
  LET mk == MkdirAll(disk, containerPath(call[t].account, call[t].container)) IN
  /\ pc[t] = "ensure"
  /\ disk' = mk.disk
  /\ IF mk.err # "nil" THEN Fail(t, IOError) ELSE Goto(t, "putmark")
  /\ UNCHANGED <<containers, last, steps, writer, readers>>

\* s.containers[key] = true,
PutMark(t) ==
  /\ pc[t] = "putmark"
  /\ containers' = containers \cup {containerKey(call[t].account, call[t].container)}
  /\ Goto(t, "blobdir")
  /\ UNCHANGED <<disk, last, steps, writer, readers>>

\* os.MkdirAll(blobDir),
PutBlobDir(t) ==
  LET mk == MkdirAll(disk, Dir(BlobPathOfCall(call[t]))) IN
  /\ pc[t] = "blobdir"
  /\ disk' = mk.disk
  /\ IF mk.err # "nil" THEN Fail(t, IOError) ELSE Goto(t, "open")
  /\ UNCHANGED <<containers, last, steps, writer, readers>>

\* and os.WriteFile: the open that truncates,
PutOpen(t) ==
  LET op == OpenTrunc(disk, BlobPathOfCall(call[t])) IN
  /\ pc[t] = "open"
  /\ disk' = op.disk
  /\ IF op.err # "nil" THEN Fail(t, IOError) ELSE Goto(t, "write")
  /\ UNCHANGED <<containers, last, steps, writer, readers>>

\* then the write of the content.
PutWrite(t) ==
  LET wr == WriteAll(disk, BlobPathOfCall(call[t]), call[t].content) IN
  /\ pc[t] = "write"
  /\ disk' = wr.disk
  /\ IF wr.err # "nil" THEN Fail(t, IOError) ELSE Fail(t, OK)
  /\ UNCHANGED <<containers, last, steps, writer, readers>>

\* DeleteContainer, line by line: if !s.containers[key],
DeleteCheck(t) ==
  /\ pc[t] = "in"
  /\ call[t].op = "DeleteContainer"
  /\ IF containerKey(call[t].account, call[t].container) \in containers
     THEN Goto(t, "removeall")
     ELSE Fail(t, NotFound)
  /\ UNCHANGED <<containers, disk, last, steps, writer, readers>>

\* os.RemoveAll(path),
DeleteRemoveAll(t) ==
  LET rm == RemoveAll(disk, containerPath(call[t].account, call[t].container)) IN
  /\ pc[t] = "removeall"
  /\ disk' = rm.disk
  /\ IF rm.err # "nil" THEN Fail(t, IOError) ELSE Goto(t, "unmark")
  /\ UNCHANGED <<containers, last, steps, writer, readers>>

\* delete(s.containers, key).
DeleteUnmark(t) ==
  /\ pc[t] = "unmark"
  /\ containers' = containers \ {containerKey(call[t].account, call[t].container)}
  /\ Fail(t, OK)
  /\ UNCHANGED <<disk, last, steps, writer, readers>>

\* GetBlob, line by line: os.ReadFile(blobPath),
GetRead(t) ==
  LET rd == ReadFile(disk, BlobPathOfCall(call[t])) IN
  /\ pc[t] = "in"
  /\ call[t].op = "GetBlob"
  /\ IF rd.err # "nil"
     THEN Fail(t, IF IsNotExist(rd.err) THEN NotFound ELSE IOError)
     ELSE /\ call' = [call EXCEPT ![t].out = rd.content]
          /\ pc' = [pc EXCEPT ![t] = "stat"]
  /\ UNCHANGED <<containers, disk, last, steps, writer, readers>>

\* os.Stat(blobPath) for the size.
GetStat(t) ==
  LET st == Stat(disk, BlobPathOfCall(call[t])) IN
  /\ pc[t] = "stat"
  /\ IF st.err # "nil"
     THEN call' = [call EXCEPT ![t].err = IOError, ![t].out = <<>>]
     ELSE call' = [call EXCEPT ![t].err = OK, ![t].size = st.size]
  /\ pc' = [pc EXCEPT ![t] = "ret"]
  /\ UNCHANGED <<containers, disk, last, steps, writer, readers>>

\* DeleteBlob is one system call, os.Remove.
DeleteBlobBody(t) ==
  /\ call[t].op = "DeleteBlob"
  /\ MutateBody(t)

\* ContainerExists reads the index once, ListBlobs walks the tree.
LookupBody(t) ==
  /\ call[t].op \in {"ContainerExists", "ListBlobs"}
  /\ ReadBody(t)

NextF ==
  \E t \in Workers :
    \/ InvokeF(t)
    \/ Lock(t)
    \/ RLock(t)
    \/ CreateCheck(t)
    \/ CreateMkdir(t)
    \/ CreateMark(t)
    \/ PutCheck(t)
    \/ PutEnsure(t)
    \/ PutMark(t)
    \/ PutBlobDir(t)
    \/ PutOpen(t)
    \/ PutWrite(t)
    \/ DeleteCheck(t)
    \/ DeleteRemoveAll(t)
    \/ DeleteUnmark(t)
    \/ GetRead(t)
    \/ GetStat(t)
    \/ DeleteBlobBody(t)
    \/ LookupBody(t)
    \/ Unlock(t)

SpecF == InitF /\ [][NextF]_vars

\* A step of goroutine t inside the store: everything but the invocation,
\* which is the caller's.
StepF(t) ==
  \/ Lock(t)
  \/ RLock(t)
  \/ CreateCheck(t)
  \/ CreateMkdir(t)
  \/ CreateMark(t)
  \/ PutCheck(t)
  \/ PutEnsure(t)
  \/ PutMark(t)
  \/ PutBlobDir(t)
  \/ PutOpen(t)
  \/ PutWrite(t)
  \/ DeleteCheck(t)
  \/ DeleteRemoveAll(t)
  \/ DeleteUnmark(t)
  \/ GetRead(t)
  \/ GetStat(t)
  \/ DeleteBlobBody(t)
  \/ LookupBody(t)
  \/ Unlock(t)

\* The scheduler is fair: a goroutine that can go on, in a system call or in
\* taking the lock that is free, does so in the end.
SpecL == InitF /\ [][NextF]_vars /\ \A t \in Workers : WF_vars(StepF(t))

-----------------------------------------------------------------------------
(* Properties *)

KeyOf(c) == containerKey(c.account, c.container)
PathOf(c) == containerPath(c.account, c.container)
BlobPathOf(c) == blobPath(c.account, c.container, c.blob)

\* C1: in every reachable state a container key is in the index if and only
\* if the directory baseDir/account/container exists on disk.
C1_IndexIffDirectory ==
  \A k \in Keys :
    containerKey(k[1], k[2]) \in containers
      <=> IsDir(disk, containerPath(k[1], k[2]))

\* C2: a CreateContainer that succeeds leaves ContainerExists true, and a
\* CreateContainer on a key the index records (by an explicit create or by
\* PutBlob's implicit one) fails with AlreadyExists and changes neither the
\* index nor the tree.
C2_CreateThenAlreadyExists ==
  [][ last'.op = "CreateContainer" =>
        IF KeyOf(last') \in containers
        THEN /\ last'.err = AlreadyExists
             /\ containers' = containers
             /\ disk' = disk
        ELSE last'.err = OK =>
               ContainerExists(containers', last'.account, last'.container).exists
    ]_vars

\* C2 witness: a second create of a recorded key has been refused.
C2_Witness ==
  /\ last.op = "CreateContainer"
  /\ last.indexed
  /\ last.err = AlreadyExists

\* C3: when every goroutine calls CreateContainer with the same key at the
\* same time, the key being absent from the index, exactly one call succeeds,
\* the others fail with AlreadyExists, and afterwards the index records the
\* key and its directory exists.
C3_OneCreateWins ==
  \A k \in KeysC :
    (\A t \in Threads :
        /\ pc[t] = "done"
        /\ call[t].op = "CreateContainer"
        /\ call[t].account = k[1]
        /\ call[t].container = k[2])
    => /\ Cardinality({ t \in Threads : call[t].err = OK }) = 1
       /\ Cardinality({ t \in Threads : call[t].err = AlreadyExists }) = NThreads - 1
       /\ containerKey(k[1], k[2]) \in containers
       /\ IsDir(disk, containerPath(k[1], k[2]))

\* C3 witness: all the goroutines have returned from CreateContainer of one key.
C3_Witness ==
  /\ NThreads >= 2
  /\ \A t \in Threads :
       /\ pc[t] = "done"
       /\ call[t].op = "CreateContainer"
       /\ call[t].account = AcctA
       /\ call[t].container = ContC

\* C4: right after a PutBlob that succeeded, GetBlob of the same key succeeds
\* and returns exactly the content that was put.
C4_PutGetRoundTrip ==
  (last.op = "PutBlob" /\ last.err = OK) =>
    LET g == GetBlob(disk, last.account, last.container, last.blob) IN
    /\ g.err = OK
    /\ g.Content = last.content

\* C4 witness: a blob with a name of three segments has been put.
C4_Witness ==
  /\ last.op = "PutBlob"
  /\ last.err = OK
  /\ last.blob = NamePQR

\* C5: a PutBlob that succeeds on a blob holding other content replaces it:
\* GetBlob returns exactly the new content and ListBlobs shows one entry of
\* that name, with the new size.
C5_Overwrite ==
  (last.op = "PutBlob" /\ last.err = OK /\ last.was = "file"
     /\ last.old # last.content) =>
    LET g == GetBlob(disk, last.account, last.container, last.blob)
        l == ListBlobs(disk, last.account, last.container, Empty, 0)
        hits == { i \in DOMAIN l.results : l.results[i].Name = last.blob }
    IN  /\ g.err = OK
        /\ g.Content = last.content
        /\ l.err = OK
        /\ Cardinality(hits) = 1
        /\ \A i \in hits : l.results[i].Size = Len(last.content)

\* C5 witness: the second of two puts of p/q, with other content than the first.
C5_Witness ==
  /\ last.op = "PutBlob"
  /\ last.err = OK
  /\ last.blob = NamePQ
  /\ last.was = "file"
  /\ last.old # last.content
  /\ steps = 2

\* Key k is not recorded and no blob of it can be read.
Gone(k, idx, d) ==
  /\ ~ContainerExists(idx, k[1], k[2]).exists
  /\ \A n \in BlobNames : GetBlob(d, k[1], k[2], n).err = NotFound

\* C6: a DeleteContainer that succeeds leaves ContainerExists false and
\* GetBlob failing with NotFound for every blob name of the container, and
\* this lasts until a CreateContainer or PutBlob on that key (a step that
\* changes neither the index nor the tree keeps it trivially).
C6_DeleteContainerThenGone ==
  [][ \/ UNCHANGED <<containers, disk>>
      \/ \A k \in Keys :
           /\ (/\ last'.op = "DeleteContainer"
               /\ last'.err = OK
               /\ last'.account = k[1]
               /\ last'.container = k[2])
              => Gone(k, containers', disk')
           /\ (/\ ~(/\ last'.op \in {"CreateContainer", "PutBlob"}
                    /\ last'.account = k[1]
                    /\ last'.container = k[2])
               /\ Gone(k, containers, disk))
              => Gone(k, containers', disk')
    ]_vars

\* C6 witness: a container holding blobs has been deleted.
C6_Witness ==
  /\ last.op = "DeleteContainer"
  /\ last.err = OK
  /\ last.files > 0

\* C7: PutBlob on a key the index does not record succeeds, and afterwards
\* ContainerExists is true and the blob is retrievable.
C7_ImplicitCreate ==
  (last.op = "PutBlob" /\ ~last.indexed) =>
    /\ last.err = OK
    /\ ContainerExists(containers, last.account, last.container).exists
    /\ GetBlob(disk, last.account, last.container, last.blob).err = OK

\* C8: DeleteBlob of a name under which no blob is stored fails with NotFound
\* and changes nothing; DeleteBlob of a stored blob succeeds and GetBlob of it
\* then fails with NotFound.
C8_DeleteBlob ==
  [][ last'.op = "DeleteBlob" =>
        IF IsFile(disk, BlobPathOf(last'))
        THEN /\ last'.err = OK
             /\ GetBlob(disk', last'.account, last'.container, last'.blob).err
                  = NotFound
        ELSE /\ last'.err = NotFound
             /\ disk' = disk
             /\ containers' = containers
    ]_vars

\* C9: GetBlob succeeds exactly when a blob of that name is stored, and fails
\* with NotFound in every other case.
C9_GetBlobNotFound ==
  last.op = "GetBlob" =>
    IF last.was = "file" THEN last.err = OK ELSE last.err = NotFound

\* C10: DeleteContainer of a key the index does not record fails with
\* NotFound and changes neither the index nor the tree; of a recorded key it
\* removes the directory with everything below it, and the index entry.
C10_DeleteContainer ==
  [][ last'.op = "DeleteContainer" =>
        IF KeyOf(last') \notin containers
        THEN /\ last'.err = NotFound
             /\ containers' = containers
             /\ disk' = disk
        ELSE /\ last'.err = OK
             /\ containers' = containers \ {KeyOf(last')}
             /\ ~Exists(disk', PathOf(last'))
             /\ Below(disk', PathOf(last')) = {}
             /\ disk'.dirs = { q \in disk.dirs : ~IsPrefixPath(PathOf(last'), q) }
    ]_vars

\* C10 witness: a DeleteContainer was refused for a key the index does not
\* record although its directory is on disk.
C10_Witness ==
  /\ last.op = "DeleteContainer"
  /\ ~last.indexed
  /\ last.err = NotFound
  /\ IsDir(disk, PathOf(last))

\* A name the call needs is the empty string.
HasEmptyName(c) ==
  \/ c.account = Empty
  \/ c.container = Empty
  \/ (c.op \in {"PutBlob", "GetBlob", "DeleteBlob"} /\ c.blob = Empty)

\* The error kind the specification gives to a call with an empty name.
InvalidArgument == "InvalidArgument"

\* C11: every call with an empty account, an empty container name or (for
\* PutBlob, GetBlob, DeleteBlob) an empty blob name fails with
\* InvalidArgument and changes neither the index nor the tree.
C11_EmptyNamesRejected ==
  [][ (last'.op # "none" /\ HasEmptyName(last')) =>
        /\ last'.err = InvalidArgument
        /\ containers' = containers
        /\ disk' = disk
    ]_vars

\* The names of the entries of a listing.
NamesOf(results) == { results[i].Name : i \in DOMAIN results }

\* s starts with the characters of p.
StartsWith(s, p) == \E n \in 0..Len(s) : SubSeq(s, 1, n) = p

\* The names of the blobs stored in container k: the regular files below its
\* directory, each by its slash separated path from there.
StoredNames(d, k) ==
  { JoinSlash(Rel(containerPath(k[1], k[2]), f)) :
      f \in FilesBelow(d, containerPath(k[1], k[2])) }

Listed == last.op = "ListBlobs" /\ last.err = OK

\* The stored names of the listed container that start with the prefix.
Matching == { n \in StoredNames(disk, <<last.account, last.container>>) :
                StartsWith(n, last.prefix) }

\* C13: ListBlobs with a non-empty prefix and maxResults 0 returns exactly
\* the stored blob names that start with the characters of the prefix,
\* whether or not the prefix ends at a path segment.
C13_PrefixFilter ==
  (Listed /\ last.prefix # Empty /\ last.max = 0) =>
    /\ NamesOf(last.results) = Matching
    /\ Len(last.results) = Cardinality(Matching)

\* C13 witness: prefix "p" has matched the names p/q and pq, and prefix "p/"
\* has matched p/q and p/r and left pq out.
C13_Witness ==
  /\ Listed
  /\ last.max = 0
  /\ \/ last.prefix = NameP /\ NamesOf(last.results) = { NamePQ, NamePq }
     \/ /\ last.prefix = <<"p", "/">>
        /\ NamesOf(last.results) = { NamePQ, NamePR }
        /\ NamePq \in StoredNames(disk, <<last.account, last.container>>)

Min(a, b) == IF a <= b THEN a ELSE b

\* C14: ListBlobs with maxResults m > 0 returns exactly min(m, k) entries, k
\* being the number of stored blobs whose name matches the prefix; each entry
\* is a different stored blob that matches, so a blob that does not match
\* takes no place under the cap.
C14_MaxResults ==
  (Listed /\ last.max > 0) =>
    /\ Len(last.results) = Min(last.max, Cardinality(Matching))
    /\ Cardinality(NamesOf(last.results)) = Len(last.results)
    /\ NamesOf(last.results) \subseteq Matching

\* C14 witness: of three stored blobs, two of which the walk visits first and
\* the prefix does not match, maxResults 1 has returned the third.
C14_Witness ==
  /\ Listed
  /\ last.max = 1
  /\ last.prefix = NamePq
  /\ last.files = 3
  /\ NamesOf(last.results) = { NamePq }
  /\ Len(last.results) = 1
  /\ { NamePQ, NamePR } \subseteq StoredNames(disk, <<last.account, last.container>>)

Active == { t \in Workers : pc[t] # "idle" }

\* Goroutine t holds the store lock, in either mode: it is between the return
\* of Lock or RLock and its deferred unlock.
Inside(t) == pc[t] \notin {"idle", "wait", "done"}

\* C16: when the only calls are a DeleteContainer and a PutBlob on the same
\* key, running concurrently, then in every state where neither is inside its
\* body no blob file lies under a key the index does not record and no
\* recorded key lacks its directory, and when both have returned either the
\* key is recorded, its directory exists and the blob is readable, or the key
\* is not recorded, the directory is gone and the blob is not readable.
C16_DeleteVsPut ==
  \A t, u \in Workers :
    (/\ Active = {t, u}
     /\ call[t].op = "DeleteContainer"
     /\ call[u].op = "PutBlob"
     /\ KeyOf(call[t]) = KeyOf(call[u]))
    => LET key  == KeyOf(call[u])
           cp   == PathOf(call[u])
           read == GetBlob(disk, call[u].account, call[u].container, call[u].blob)
       IN  /\ (~Inside(t) /\ ~Inside(u)) =>
                /\ FilesBelow(disk, cp) # {} => key \in containers
                /\ key \in containers => IsDir(disk, cp)
           /\ (pc[t] = "done" /\ pc[u] = "done") =>
                \/ key \in containers /\ IsDir(disk, cp) /\ read.err = OK
                \/ key \notin containers /\ ~Exists(disk, cp) /\ read.err = NotFound

\* The contents a blob may hold: what an earlier run left in it and what the
\* PutBlob calls given to the goroutines write to it.
WholeContents(bp) ==
  { d.files[bp] : d \in { x \in PriorDisks : bp \in DOMAIN x.files } }
    \cup { call[u].content :
             u \in { w \in Active : call[w].op = "PutBlob"
                                      /\ BlobPathOfCall(call[w]) = bp } }

\* C17: a GetBlob that succeeds beside PutBlob calls on the same blob returns
\* the whole content of one of those calls, or the whole earlier content, and
\* reports the length of what it returns as Size.
C17_NoPartialRead ==
  \A t \in Workers :
    (call[t].op = "GetBlob" /\ pc[t] \in {"ret", "done"} /\ call[t].err = OK) =>
      /\ call[t].out \in WholeContents(BlobPathOfCall(call[t]))
      /\ call[t].size = Len(call[t].out)

\* C17 witness: a GetBlob of blob p waits for the lock while a PutBlob of p
\* is between its truncating open and its write, the file being empty.
C17_Witness ==
  \E t, u \in Workers :
    /\ call[t].op = "GetBlob"
    /\ pc[t] = "wait"
    /\ call[u].op = "PutBlob"
    /\ pc[u] = "write"
    /\ BlobPathOfCall(call[t]) = BlobPathOfCall(call[u])
    /\ disk.files[BlobPathOfCall(call[u])] = <<>>
    /\ disk.files[BlobPathOfCall(call[u])] \notin WholeContents(BlobPathOfCall(call[u]))

\* Goroutine t is inside the file step of its call: the os.WriteFile of
\* PutBlob, or the os.ReadFile and os.Stat of GetBlob.
InFileStep(t) ==
  \/ call[t].op = "PutBlob" /\ pc[t] \in {"open", "write"}
  \/ call[t].op = "GetBlob" /\ pc[t] \in {"in", "stat"}

\* C18 as claimed: while a PutBlob on a container that exists is in its file
\* write step, a PutBlob or GetBlob on another blob that waits to enter is
\* let in by the store lock, so that the two file steps overlap.
C18_OverlapAllowed ==
  \A t, u \in Workers :
    (/\ t # u
     /\ call[t].op = "PutBlob"
     /\ InFileStep(t)
     /\ call[u].op \in {"PutBlob", "GetBlob"}
     /\ pc[u] = "wait"
     /\ call[u].blob # call[t].blob
     /\ KeyOf(call[u]) \in containers)
    => IF call[u].op \in Mutators THEN CanLock ELSE CanRLock

\* C18 as amended: a PutBlob holds the store lock alone from entry to return,
\* so while it is in its file write step no other call is inside its body,
\* whatever blob it is about; file steps overlap only between reading calls.
C18_WriteExcludesAll ==
  \A t, u \in Workers :
    (t # u /\ call[t].op = "PutBlob" /\ Inside(t)) =>
      /\ ~Inside(u)
      /\ writer = t
      /\ readers = {}

\* C18 witness: a PutBlob is between its open and its write while a PutBlob
\* on another blob of the same, existing container waits for the lock.
C18_Witness ==
  \E t, u \in Workers :
    /\ t # u
    /\ call[t].op = "PutBlob" /\ pc[t] = "write"
    /\ call[u].op = "PutBlob" /\ pc[u] = "wait"
    /\ call[u].blob # call[t].blob
    /\ KeyOf(call[u]) \in containers

C20_ContainerExistsPure ==
  [][ last'.op = "ContainerExists" =>
        /\ last'.err = OK
        /\ last'.exists = (KeyOf(last') \in containers)
        /\ containers' = containers
        /\ disk' = disk
    ]_vars

\* C20 witness: ContainerExists has answered true for a key with an empty
\* account, and false for a key whose directory is on disk.
C20_Witness ==
  /\ last.op = "ContainerExists"
  /\ \/ last.account = Empty /\ last.exists
     \/ ~last.exists /\ IsDir(disk, PathOf(last)) /\ last.account # Empty

\* The status the adapter is to answer a call with, by the kind of its
\* outcome.
StatusByKind(c) ==
  IF HasEmptyName(c) THEN 400
  ELSE IF c.err = OK THEN StatusOnSuccess(c.op)
  ELSE IF c.err = NotFound THEN 404
  ELSE IF c.err = AlreadyExists THEN 409
  ELSE 500

\* C21: the status of every response is determined by the outcome of the
\* store call: 201 for a create-container or put-blob that succeeded, 200
\* for get-blob and list-blobs, 204 for delete-container and delete-blob,
\* 404 when the store answered NotFound, 409 when it answered AlreadyExists,
\* 500 for every other store error; and a request with an empty account,
\* container or blob name is answered 400 and the store is not called.
C21_StatusByOutcome ==
  [][ last'.op # "none" =>
        /\ last'.status = StatusByKind(last')
        /\ HasEmptyName(last') =>
             /\ ~last'.engine
             /\ containers' = containers
             /\ disk' = disk ]_vars

\* C22: the content type and the metadata given to PutBlob change nothing:
\* every PutBlob step leaves the index, the tree and the error it would have
\* left with any other content type and metadata, and every GetBlob and
\* every ListBlobs entry afterwards reports application/octet-stream and
\* empty metadata.
C22_TypeAndMetadataDropped ==
  [][ /\ (last'.op = "PutBlob" /\ last'.engine) =>
           LET c == last' IN
           /\ \A ct \in ContentTypesH \cup {DefaultContentType}, md \in MetadatasH :
                PutBlob(containers, disk, c.account, c.container, c.blob,
                        c.content, ct, md)
                  = [containers |-> containers', disk |-> disk', err |-> c.err]
           /\ c.err = OK =>
                LET g == GetBlob(disk', c.account, c.container, c.blob)
                    l == ListBlobs(disk', c.account, c.container, Empty, 0).results
                IN /\ g.ContentType = DefaultContentType
                   /\ g.Metadata = NoMetadata
                   /\ \A i \in DOMAIN l :
                        /\ l[i].ContentType = DefaultContentType
                        /\ l[i].Metadata = NoMetadata
      /\ (last'.op = "GetBlob" /\ last'.engine /\ last'.err = OK) =>
           LET g == GetBlob(disk, last'.account, last'.container, last'.blob)
           IN g.ContentType = DefaultContentType /\ g.Metadata = NoMetadata
      /\ (last'.op = "ListBlobs" /\ last'.engine /\ last'.err = OK) =>
           \A i \in DOMAIN last'.results :
             /\ last'.results[i].ContentType = DefaultContentType
             /\ last'.results[i].Metadata = NoMetadata ]_vars

\* C22 witness: a PutBlob given text/plain and the metadata k: v has
\* succeeded.
C22_Witness ==
  /\ last.op = "PutBlob"
  /\ last.err = OK
  /\ last.ctype = "text/plain"
  /\ last.meta # NoMetadata

\* C23: CreateContainer on a key the index does not record, whose directory
\* is on disk, succeeds and records the key; AlreadyExists is returned exactly
\* when the index records the key; the files in the directory are kept and
\* the listing of the container shows them.
C23_CreateOverExistingDirectory ==
  [][ last'.op = "CreateContainer" =>
        LET c == last'
            k == <<c.account, c.container>>
        IN /\ (c.err = AlreadyExists) <=> (KeyOf(c) \in containers)
           /\ (KeyOf(c) \notin containers /\ IsDir(disk, PathOf(c))) =>
                /\ c.err = OK
                /\ containers' = containers \cup {KeyOf(c)}
                /\ disk' = disk
                /\ LET l == ListBlobs(disk', c.account, c.container, Empty, 0)
                   IN /\ l.err = OK
                      /\ NamesOf(l.results) = StoredNames(disk, k)
                      /\ Len(l.results) = c.files ]_vars

\* C23 witness: CreateContainer has succeeded on a directory that held a
\* file and that the index did not record.
C23_Witness ==
  /\ last.op = "CreateContainer"
  /\ last.err = OK
  /\ ~last.indexed
  /\ last.files > 0
  /\ KeyOf(last) \in containers

\* The entries of a listing that carry the name n.
EntriesNamed(results, n) == { i \in DOMAIN results : results[i].Name = n }

\* C24: the Size GetBlob reports for a stored blob and the Size of its
\* ListBlobs entry are the number of bytes of the content of the most recent
\* PutBlob of it that succeeded: right after that PutBlob both are the length
\* of the content put, with one entry for the name, and every later GetBlob
\* and listing reports the length of the file as it is.
C24_SizeIsContentLength ==
  /\ (last.op = "PutBlob" /\ last.err = OK) =>
       LET g == GetBlob(disk, last.account, last.container, last.blob)
           l == ListBlobs(disk, last.account, last.container, Empty, 0).results
       IN /\ g.err = OK
          /\ g.Size = Len(last.content)
          /\ Cardinality(EntriesNamed(l, last.blob)) = 1
          /\ \A i \in EntriesNamed(l, last.blob) : l[i].Size = Len(last.content)
  /\ (last.op = "GetBlob" /\ last.err = OK) =>
       /\ last.size = Len(last.out)
       /\ last.size = Len(disk.files[BlobPathOf(last)])
  /\ Listed =>
       \A i \in DOMAIN last.results :
         last.results[i].Size
           = Len(disk.files[blobPath(last.account, last.container,
                                     last.results[i].Name)])

\* C24 witness: a PutBlob has replaced a blob by content of another length.
C24_Witness ==
  /\ last.op = "PutBlob"
  /\ last.err = OK
  /\ last.was = "file"
  /\ Len(last.old) # Len(last.content)

\* C25: a DeleteContainer that succeeds takes the directory with all blobs
\* away, and when the key is created again from there, by CreateContainer or
\* by a PutBlob, no earlier blob comes back: the listing holds only what was
\* put since (nothing, or the one blob of the PutBlob) and GetBlob of every
\* other name fails with NotFound.
C25_NoResurrection ==
  [][ LET c == last'
          k == <<c.account, c.container>>
          put == IF c.op = "PutBlob" THEN {c.blob} ELSE {}
      IN /\ (c.op = "DeleteContainer" /\ c.err = OK) =>
              /\ ~Exists(disk', PathOf(c))
              /\ FilesBelow(disk', PathOf(c)) = {}
         /\ (/\ c.op \in {"CreateContainer", "PutBlob"}
             /\ c.err = OK
             /\ ~Exists(disk, PathOf(c))) =>
              /\ StoredNames(disk', k) = put
              /\ NamesOf(ListBlobs(disk', k[1], k[2], Empty, 0).results) = put
              /\ \A n \in BlobNames \ put :
                   GetBlob(disk', k[1], k[2], n).err = NotFound ]_vars

\* The call c run as one atomic step on index idx and tree d: the index and
\* tree it leaves and the call with its result.
Atomic(c, idx, d) ==
  CASE c.op = "CreateContainer" ->
         LET r == CreateContainer(idx, d, c.account, c.container)
         IN [containers |-> r.containers, disk |-> r.disk,
             call |-> [c EXCEPT !.err = r.err]]
    [] c.op = "DeleteContainer" ->
         LET r == DeleteContainer(idx, d, c.account, c.container)
         IN [containers |-> r.containers, disk |-> r.disk,
             call |-> [c EXCEPT !.err = r.err]]
    [] c.op = "PutBlob" ->
         LET r == PutBlob(idx, d, c.account, c.container, c.blob, c.content,
                          "text/plain", <<>>)
         IN [containers |-> r.containers, disk |-> r.disk,
             call |-> [c EXCEPT !.err = r.err]]
    [] c.op = "DeleteBlob" ->
         LET r == DeleteBlob(idx, d, c.account, c.container, c.blob)
         IN [containers |-> r.containers, disk |-> r.disk,
             call |-> [c EXCEPT !.err = r.err]]
    [] c.op = "ContainerExists" ->
         LET r == ContainerExists(idx, c.account, c.container)
         IN [containers |-> idx, disk |-> d,
             call |-> [c EXCEPT !.err = r.err, !.exists = r.exists]]
    [] c.op = "GetBlob" ->
         LET r == GetBlob(d, c.account, c.container, c.blob)
         IN [containers |-> idx, disk |-> d,
             call |-> [c EXCEPT !.err = r.err, !.out = r.Content, !.size = r.Size]]
    [] OTHER ->
         LET r == ListBlobs(d, c.account, c.container, c.prefix, c.max)
         IN [containers |-> idx, disk |-> d,
             call |-> [c EXCEPT !.err = r.err, !.results = r.results]]

\* The call of goroutine t as it was invoked, without its result.
Invoked(t) ==
  [call[t] EXCEPT !.err = OK, !.exists = FALSE, !.out = <<>>, !.size = 0,
                  !.results = <<>>]

\* The calls of the goroutines in `order` run one after the other from index
\* idx and tree d; done holds the calls already run, with their results.
RECURSIVE Serial(_, _, _, _)
Serial(order, idx, d, done) ==
  IF order = <<>> THEN [containers |-> idx, disk |-> d, call |-> done]
  ELSE LET a == Atomic(Invoked(Head(order)), idx, d)
       IN Serial(Tail(order), a.containers, a.disk,
                 [done EXCEPT ![Head(order)] = a.call])

\* The orders in which the goroutines of S can run one after the other.
Orders(S) ==
  { o \in [1..Cardinality(S) -> S] : \A i, j \in DOMAIN o : o[i] = o[j] => i = j }

\* C26: every concurrent execution is equivalent to a serial one.  A call
\* holds the store lock for its whole body, a mutating call alone and a
\* reading call together with reading calls only, so no call is inside its
\* body while a mutating call is; and when the calls have returned, the
\* index, the tree and the result of every call are those of the same calls
\* run one at a time, each as one atomic step, in some order.
C26_Serializable ==
  /\ \A t \in Workers :
       Inside(t) =>
         IF call[t].op \in Mutators
         THEN /\ writer = t
              /\ readers = {}
              /\ \A u \in Workers \ {t} : ~Inside(u)
         ELSE /\ t \in readers
              /\ writer = NoThread
  /\ (Active # {} /\ \A t \in Active : pc[t] = "done") =>
       \E d \in PriorDisks, o \in Orders(Active) :
         LET s == Serial(o, NewFileBlobStore(d).containers,
                         NewFileBlobStore(d).disk, call)
         IN /\ s.containers = containers
            /\ s.disk = disk
            /\ s.call = call

\* C26 witness: a PutBlob and a DeleteContainer of the same key ran
\* concurrently and have both returned, the PutBlob with the implicit
\* create after the delete was refused.
C26_Witness ==
  \E t, u \in Workers :
    /\ pc[t] = "done" /\ pc[u] = "done"
    /\ call[t].op = "PutBlob" /\ call[t].err = OK
    /\ call[u].op = "DeleteContainer" /\ call[u].err = NotFound
    /\ KeyOf(call[t]) = KeyOf(call[u])
    /\ KeyOf(call[t]) \in containers

\* C27: a store just constructed has an empty index whatever its directory
\* holds; and for a container directory the index does not record, as an
\* earlier run leaves it, ContainerExists is false and DeleteContainer fails
\* with NotFound, while ListBlobs succeeds and shows the blobs in it and
\* GetBlob and DeleteBlob succeed on each of them.
C27_StartsWithEmptyIndex ==
  /\ steps = 0 => containers = {}
  /\ \A k \in Keys :
       (containerKey(k[1], k[2]) \notin containers
          /\ IsDir(disk, containerPath(k[1], k[2]))) =>
         /\ ~ContainerExists(containers, k[1], k[2]).exists
         /\ DeleteContainer(containers, disk, k[1], k[2]).err = NotFound
         /\ ListBlobs(disk, k[1], k[2], Empty, 0).err = OK
         /\ NamesOf(ListBlobs(disk, k[1], k[2], Empty, 0).results)
              = StoredNames(disk, k)
         /\ \A n \in StoredNames(disk, k) :
              /\ GetBlob(disk, k[1], k[2], n).err = OK
              /\ DeleteBlob(containers, disk, k[1], k[2], n).err = OK

\* C27 witness: before any mutating call, GetBlob has returned the blob an
\* earlier run left, under a key the index does not record.
C27_Witness ==
  /\ steps = 0
  /\ containers = {}
  /\ last.op = "GetBlob"
  /\ last.err = OK
  /\ last.out = <<1>>
  /\ ~last.indexed

\* C28: PutBlob is not all-or-nothing.  When the key is not in the index,
\* the os.MkdirAll of the container succeeds and the call still fails (in
\* the os.MkdirAll of the blob's directory or in os.WriteFile), it returns an
\* I/O error, the key is recorded and ContainerExists true, the container
\* directory exists, and no blob is stored under the name.
C28_PutBlobNotAtomic ==
  [][ (/\ last'.op = "PutBlob"
       /\ KeyOf(last') \notin containers
       /\ MkdirAll(disk, PathOf(last')).err = "nil"
       /\ last'.err # OK) =>
        /\ last'.err = IOError
        /\ containers' = containers \cup {KeyOf(last')}
        /\ ContainerExists(containers', last'.account, last'.container).exists
        /\ IsDir(disk', PathOf(last'))
        /\ ~IsFile(disk', BlobPathOf(last'))
        /\ GetBlob(disk', last'.account, last'.container, last'.blob).err # OK
    ]_vars

\* C29: when os.MkdirAll fails in CreateContainer, or os.RemoveAll in
\* DeleteContainer, the call returns an I/O error and the index stays as it
\* was.
C29_FailedStepKeepsIndex ==
  [][ /\ (/\ last'.op = "CreateContainer"
          /\ KeyOf(last') \notin containers
          /\ MkdirAll(disk, PathOf(last')).err # "nil") =>
           /\ last'.err = IOError
           /\ containers' = containers
      /\ (/\ last'.op = "DeleteContainer"
          /\ KeyOf(last') \in containers
          /\ RemoveAll(disk, PathOf(last')).err # "nil") =>
           /\ last'.err = IOError
           /\ containers' = containers ]_vars

\* C29 witness: a DeleteContainer of a recorded key has failed, the account
\* directory not being writable, and the key is still recorded.
C29_Witness ==
  /\ last.op = "DeleteContainer"
  /\ last.indexed
  /\ last.err = IOError
  /\ KeyOf(last) \in containers

\* The path p of a blob of container k is taken: a stored blob lies on the
\* way to it, or it is a directory on the way to another blob's name.
BlobAbove(d, k, p) ==
  \E a \in ProperPrefixes(p) :
    IsProperPrefixPath(containerPath(k[1], k[2]), a) /\ IsFile(d, a)

\* C30: a name is not both a blob and a directory part of another blob's
\* name.  PutBlob of n fails with an I/O error and leaves the stored blobs
\* as they are when a stored blob's name is a proper path-segment prefix of
\* n, and when n is a directory, made as the prefix of a name put earlier;
\* and such a directory stays, the nested blob deleted or not, until a
\* DeleteContainer of its container succeeds.
C30_BlobOrDirectory ==
  [][ /\ last'.op = "PutBlob" =>
           LET k == <<last'.account, last'.container>> IN
           (BlobAbove(disk, k, BlobPathOf(last')) \/ IsDir(disk, BlobPathOf(last'))) =>
             /\ last'.err = IOError
             /\ disk'.files = disk.files
      /\ \A k \in Keys, n \in BlobNames :
           (/\ IsDir(disk, blobPath(k[1], k[2], n))
            /\ ~(/\ last'.op = "DeleteContainer"
                 /\ last'.err = OK
                 /\ <<last'.account, last'.container>> = k)) =>
             IsDir(disk', blobPath(k[1], k[2], n)) ]_vars

\* The blobs of container k with their contents.
BlobsOf(d, k) == Restrict(d.files, FilesBelow(d, containerPath(k[1], k[2])))

\* C31: containers are isolated.  For account and container names without
\* a slash, a call on key (a, c) leaves, for every other key, its membership
\* in the index and the existence and content of every blob of its
\* container as they were, the container of the same name in another
\* account included.
C31_Isolation ==
  [][ last'.op # "none" =>
        \A k \in KeysI :
          k # <<last'.account, last'.container>> =>
            /\ (containerKey(k[1], k[2]) \in containers')
                 <=> (containerKey(k[1], k[2]) \in containers)
            /\ BlobsOf(disk', k) = BlobsOf(disk, k) ]_vars

\* How far a call has come, by the place it is at.
Progress(p) ==
  CASE p = "idle" -> 0
    [] p = "wait" -> 1
    [] p = "in" -> 2
    [] p \in {"ensure", "removeall", "stat", "mkdir"} -> 3
    [] p \in {"putmark", "unmark", "mark"} -> 4
    [] p = "blobdir" -> 5
    [] p = "open" -> 6
    [] p = "write" -> 7
    [] p = "ret" -> 8
    [] OTHER -> 9

\* C32: every call releases the store lock on every return path, with or
\* without an error: a goroutine that is not inside a call holds the lock in
\* neither mode.  No step of a call is taken twice: a call only moves
\* forward, a failed step leads to the return.  And under fair scheduling
\* every call that was invoked returns, whatever the other callers do.
C32_ReleasesAndReturns ==
  /\ [](\A t \in Workers :
          ~Inside(t) => (writer # t /\ t \notin readers))
  /\ [][ \A t \in Workers :
           /\ pc'[t] # pc[t] => Progress(pc'[t]) > Progress(pc[t])
           /\ (call'[t].err # OK /\ call[t].err = OK /\ call[t].op # "none")
                => pc'[t] = "ret" ]_vars
  /\ \A t \in Workers : (pc[t] = "wait") ~> (pc[t] = "done")

\* C32 witness: a mutating call has failed and returned, and another
\* mutating call has taken the lock after it.
C32_Witness ==
  \E t, u \in Workers :
    /\ t # u
    /\ call[t].op \in Mutators
    /\ call[t].err = IOError
    /\ pc[t] = "done"
    /\ call[u].op \in Mutators
    /\ pc[u] = "in"
    /\ writer = u

====
